---- MODULE Spec2Model ----
(***************************************************************************)
(* Opening-book construction engine of Strain-On-Veins.                    *)
(*                                                                         *)
(* Two of the builder scripts are modelled side by side:                   *)
(*   "general"  = src/book-builder-general.py  (build_book)                *)
(*   "standard" = src/standard-bin.py          (build_book_from_pgn)       *)
(* Both replay games into a Book, normalize it, add jitter and write a     *)
(* Polyglot file of 16-byte records.  Python dicts keep insertion order,   *)
(* so Book.positions and BookPosition.moves are sequences here.            *)
(*                                                                         *)
(* Specifications:                                                         *)
(*   Spec       a whole run: ingestion loop, normalize, jitter, save       *)
(*   SpecDet    the same with the jitter off, recording the admitted games *)
(*   SpecCodec  the move encoding of save_polyglot on every move           *)
(*   SpecReplay the replay loop of one admitted game, one ply per step     *)
(*   SpecNorm   normalize on books of every small weight combination       *)
(***************************************************************************)
EXTENDS Integers, Sequences, FiniteSets, TLC

VARIABLES
    script,     \* which builder script is running
    pc,         \* position of the run: "ingest", "jitter", "save", "done", "failed"
                \* (codec runs: "codec", "encoded", "skipped"; replay runs: "replay", "replayed")
    book,       \* Book.positions: sequence of [key_hex, moves]
    game,       \* the game last returned by read_game (NoGame = None)
    processed,  \* counter `processed`
    kept,       \* counter `kept`
    raw,        \* history: Book.positions as it was when normalize was called
    normalized, \* history: Book.positions as normalize left it (before jitter)
    file,       \* the bytes at the output path: a sequence of 16-byte records' bytes
    raised,     \* history: has the replay of an admitted game ended in `except`?
    admitted,   \* history (recording runs only): admitted games in ingestion order
    probe,      \* the move handed to the move codec in the codec specification
    current_board \* replay runs: `board`, the board of the game being replayed

vars == <<script, pc, book, game, processed, kept, raw, normalized,
          file, raised, admitted, probe, current_board>>

----------------------------------------------------------------------------
(* Bounds *)

\* number of games of the input stream that pass the admission filter, at most
MaxGames == 2

\* largest raw weight of a BookMove in the normalize runs
MaxRawWeight == 11

----------------------------------------------------------------------------
(* Program constants *)

MAX_BOOK_WEIGHT == 2520
MIN_RATING == 2350
RATING_CUTOFF == 3100

\* book-builder-general.py:10 and standard-bin.py:11
MAX_PLY(s) == IF s = "general" THEN 50 ELSE 100

\* book-builder-general.py:9 and standard-bin.py:10
VARIANT(s) == IF s = "general" THEN "horde" ELSE "standard"

\* book-builder-general.py:15 and standard-bin.py:16-20
ALLOWED_BOTS(s) ==
    IF s = "general"
    THEN {"MaggiChess16", "NecroMindX", "Speedrunchessgames", "Endogenetic-Bot"}
    ELSE {"ToromBot", "Speedrunchessgames", "NecroMindX", "MaggiChess16",
          "NNUE_Drift", "PINEAPPLEMASK", "Strain-On-Veins", "Yuki_1324",
          "Endogenetic-Bot", "Exogenetic-Bot", "BOT_Stockfish13",
          "Classic_Bot-V2", "InvinxibleFlxsh", "LeelaMultiPoss"}

\* mutant of JitterMax: the draw goes up to 4
JitterMax_Wide(s) == 4

\* upper end of random.randint(0, n) in the jitter loop:
\* book-builder-general.py:165 draws from 0..2, standard-bin.py:169 from 0..3
JitterMax(s) == IF s = "general" THEN 2 ELSE 3

Scripts == {"general", "standard"}

----------------------------------------------------------------------------
(* Small helpers *)

Max(a, b) == IF a >= b THEN a ELSE b
Min(a, b) == IF a <= b THEN a ELSE b

RECURSIVE SumSeq(_)
SumSeq(s) == IF s = <<>> THEN 0 ELSE Head(s) + SumSeq(Tail(s))

RECURSIVE Concat(_)
Concat(ss) == IF ss = <<>> THEN <<>> ELSE Head(ss) \o Concat(Tail(ss))

Prefix(s, n) == SubSeq(s, 1, n)

\* lexicographic <= on two sequences of numbers (Python bytes / tuple order)
RECURSIVE LexLeq(_, _)
LexLeq(a, b) ==
    IF a = <<>> THEN TRUE
    ELSE IF b = <<>> THEN FALSE
    ELSE IF Head(a) < Head(b) THEN TRUE
    ELSE IF Head(a) > Head(b) THEN FALSE
    ELSE LexLeq(Tail(a), Tail(b))

\* int.to_bytes(n, "big") of a non-negative integer below 256^n
RECURSIVE to_bytes(_, _)
to_bytes(v, n) ==
    IF n = 0 THEN <<>> ELSE to_bytes(v \div 256, n - 1) \o <<v % 256>>

----------------------------------------------------------------------------
(* Moves (chess.Move): from_square, to_square in 0..63, promotion and drop  *)
(* are piece types 2..5 resp. 1..6, or 0 for None.                          *)

Squares == 0 .. 63
PromotionPieces == 2 .. 5      \* KNIGHT, BISHOP, ROOK, QUEEN

Move(f, t, p, d) == [from_square |-> f, to_square |-> t, promotion |-> p, drop |-> d]

FILE_NAMES == <<"a", "b", "c", "d", "e", "f", "g", "h">>
RANK_NAMES == <<"1", "2", "3", "4", "5", "6", "7", "8">>
PIECE_SYMBOLS == <<"p", "n", "b", "r", "q", "k">>
UPPER_SYMBOLS == <<"P", "N", "B", "R", "Q", "K">>

SquareName(sq) == <<FILE_NAMES[(sq % 8) + 1], RANK_NAMES[(sq \div 8) + 1]>>

\* Move.uci(): the characters of the UCI string
uci(m) ==
    IF m.drop # 0
    THEN <<UPPER_SYMBOLS[m.drop], "@">> \o SquareName(m.to_square)
    ELSE IF m.promotion # 0
    THEN SquareName(m.from_square) \o SquareName(m.to_square)
         \o <<PIECE_SYMBOLS[m.promotion]>>
    ELSE IF m.from_square = 0 /\ m.to_square = 0
    THEN <<"0", "0", "0", "0">>
    ELSE SquareName(m.from_square) \o SquareName(m.to_square)

\* `"@" in m.uci()`
IsDropUci(u) == \E i \in 1 .. Len(u) : u[i] = "@"

----------------------------------------------------------------------------
(* Move codec *)

\* mutant of MoveCode: the promotion piece type is shifted as it is
MoveCode_RawPromotion(m) ==
    m.to_square + m.from_square * 64
    + (IF m.promotion # 0 THEN m.promotion * 4096 ELSE 0)

\* save_polyglot of book-builder-general.py: the 16-bit move code
\*   mi = m.to_square + (m.from_square << 6)
\*   if m.promotion: mi += ((m.promotion - 1) << 12)
MoveCode(m) ==
    m.to_square + m.from_square * 64
    + (IF m.promotion # 0 THEN (m.promotion - 1) * 4096 ELSE 0)

\* standard-bin.py hands the move to chess.polyglot.encode_move inside
\* try/except: the outcome is either a code or an exception (drop moves
\* have no origin square to encode).
EncodeRaises(m) == m.drop # 0

\* mutant of SkipsMove: no move is skipped
SkipsMove_Never(s, m) == FALSE

\* does save_polyglot skip the move instead of encoding it?
SkipsMove(s, m) ==
    IF s = "general" THEN IsDropUci(uci(m)) ELSE EncodeRaises(m)

----------------------------------------------------------------------------
(* Position keys *)

HEX_DIGITS == <<"0", "1", "2", "3", "4", "5", "6", "7",
                "8", "9", "a", "b", "c", "d", "e", "f">>

HexValue(c) == (CHOOSE i \in 1 .. 16 : HEX_DIGITS[i] = c) - 1

\* a board is the stack of moves pushed onto the initial position
InitialBoard == <<>>

\* chess.WHITE = True moves first, the turn flips with every push
WHITE == TRUE
BLACK == FALSE
Turn(board) == (Len(board) % 2 = 0)

\* chess.polyglot.zobrist_hash: a 64-bit value, held as four 16-bit limbs
\* (most significant first).  It is a function of the position only: the
\* contributions of the moves made are combined commutatively, as XOR does
\* in the library, so transpositions collide.
InitialHash == <<17979, 38424, 5777, 64668>>

MoveHash(m, white) ==
    LET a == m.from_square * 64 + m.to_square + 4096 * m.promotion + 977 * m.drop
        b == IF white THEN 1 ELSE 3
    IN  <<(a * 7965 * b) % 65536, (a * 10473 + b) % 65536,
          (a * 31 * b + 12345) % 65536, (a * 257 + 77 * b) % 65536>>

RECURSIVE zobrist_hash(_)
zobrist_hash(board) ==
    IF board = <<>> THEN InitialHash
    ELSE LET n == Len(board)
             h == zobrist_hash(Prefix(board, n - 1))
             d == MoveHash(board[n], (n % 2 = 1))
         IN  [i \in 1 .. 4 |-> (h[i] + d[i]) % 65536]

\* f"{v:04x}" of one limb
Hex4(v) == <<HEX_DIGITS[((v \div 4096) % 16) + 1], HEX_DIGITS[((v \div 256) % 16) + 1],
             HEX_DIGITS[((v \div 16) % 16) + 1], HEX_DIGITS[(v % 16) + 1]>>

\* key_hex(board) = f"{zobrist_hash(board):016x}": 16 hex characters
key_hex(board) ==
    LET h == zobrist_hash(board)
    IN  Hex4(h[1]) \o Hex4(h[2]) \o Hex4(h[3]) \o Hex4(h[4])

\* bytes.fromhex(key_hex): 8 bytes
fromhex(hx) == [i \in 1 .. (Len(hx) \div 2) |->
                   HexValue(hx[2 * i - 1]) * 16 + HexValue(hx[2 * i])]

----------------------------------------------------------------------------
(* Book, BookPosition, BookMove *)

NoMove == [none |-> TRUE]          \* BookMove.move = None

\* BookMove(): weight 0, move None; `u` is its key in BookPosition.moves
BookMove(u) == [uci |-> u, weight |-> 0, move |-> NoMove]

\* BookPosition(): no moves; `k` is its key in Book.positions
BookPosition(k) == [key |-> k, moves |-> <<>>]

\* index of the entry of a dict (kept in insertion order) under a key
PositionIndex(b, k) == CHOOSE i \in 1 .. Len(b) : b[i].key = k
MoveIndex(ms, u) == CHOOSE j \in 1 .. Len(ms) : ms[j].uci = u

\* Book.get_position: self.positions.setdefault(key_hex, BookPosition())
get_position(b, k) ==
    IF \E i \in 1 .. Len(b) : b[i].key = k THEN b ELSE Append(b, BookPosition(k))

\* mutant of get_move: a new BookMove is made at every call
get_move_AlwaysNew(ms, u) == Append(ms, BookMove(u))

\* BookPosition.get_move: self.moves.setdefault(uci, BookMove())
get_move(ms, u) ==
    IF \E j \in 1 .. Len(ms) : ms[j].uci = u THEN ms ELSE Append(ms, BookMove(u))

\* all BookMoves of the book with their position key, in iteration order
RECURSIVE AllMoves(_)
AllMoves(b) ==
    IF b = <<>> THEN <<>>
    ELSE [j \in 1 .. Len(Head(b).moves) |->
             [key |-> Head(b).key, uci |-> Head(b).moves[j].uci,
              weight |-> Head(b).moves[j].weight, move |-> Head(b).moves[j].move]]
         \o AllMoves(Tail(b))

\* weight stored under (key, uci), 0 when there is no such BookMove
WeightOf(b, k, u) ==
    IF \E i \in 1 .. Len(b) : b[i].key = k /\ \E j \in 1 .. Len(b[i].moves) : b[i].moves[j].uci = u
    THEN b[PositionIndex(b, k)].moves[MoveIndex(b[PositionIndex(b, k)].moves, u)].weight
    ELSE 0

----------------------------------------------------------------------------
(* Book.normalize *)

RECURSIVE Pow2Mod(_, _)
Pow2Mod(k, s) == IF k = 0 THEN 1 % s ELSE (2 * Pow2Mod(k - 1, s)) % s

RECURSIVE Log2Floor(_)
Log2Floor(n) == IF n < 2 THEN 0 ELSE 1 + Log2Floor(n \div 2)

\* int(w / s * MAX_BOOK_WEIGHT) in IEEE-754 double arithmetic, 0 <= w <= s, s > 0.
\* w / s is rounded to 53 significant bits, the product with MAX_BOOK_WEIGHT is
\* rounded again and int() truncates.  When s does not divide w * MAX_BOOK_WEIGHT
\* the exact value is at least 1/s away from an integer, far more than both
\* rounding errors, and the result is the exact floor.  When it does, the
\* result is the exact quotient n unless the division was rounded down (by
\* r/s of a unit in the last place, r the remainder after 53 quotient bits)
\* and the product then lies more than half a spacing below n.
FloatScale(w, s) ==
    LET x == w * MAX_BOOK_WEIGHT
        n == x \div s
    IN  IF x % s # 0 \/ w = 0 \/ w = s THEN n
        ELSE LET j == CHOOSE e \in 1 .. 31 : w * 2^e >= s /\ w * 2^(e - 1) < s
                 r == (w * Pow2Mod(52 + j, s)) % s
                 rprev == (w * Pow2Mod(51 + j, s)) % s
                 lastbit == (2 * rprev) \div s
                 up == 2 * r > s \/ (2 * r = s /\ lastbit = 1)
                 g == IF 2^Log2Floor(n) = n THEN Log2Floor(n) - 1 ELSE Log2Floor(n)
             IN  IF up \/ r = 0 THEN n
                 ELSE IF MAX_BOOK_WEIGHT * r * 2 <= s * 2^(g + j) THEN n
                 ELSE n - 1

\* mutant of NormalizePosition: each weight is scaled by the sum of the
\* weights up to it instead of the sum of all
NormalizePosition_ByPrefix(pos) ==
    LET s(j) == SumSeq([h \in 1 .. j |-> pos.moves[h].weight])
    IN  IF s(Len(pos.moves)) <= 0 THEN pos
        ELSE [pos EXCEPT !.moves =
                 [j \in 1 .. Len(pos.moves) |->
                     [pos.moves[j] EXCEPT !.weight = Max(1, FloatScale(@, s(j)))]]]

\* one position of normalize
NormalizePosition(pos) ==
    LET s == SumSeq([j \in 1 .. Len(pos.moves) |-> pos.moves[j].weight])
    IN  IF s <= 0 THEN pos
        ELSE [pos EXCEPT !.moves =
                 [j \in 1 .. Len(pos.moves) |->
                     [pos.moves[j] EXCEPT !.weight = Max(1, FloatScale(@, s))]]]

\* Book.normalize
normalize(b) == [i \in 1 .. Len(b) |-> NormalizePosition(b[i])]

----------------------------------------------------------------------------
(* The jitter loop after normalize *)

NumMoves(b) == SumSeq([i \in 1 .. Len(b) |-> Len(b[i].moves)])

\* number of BookMoves in the positions before position i
Offset(b, i) == SumSeq([h \in 1 .. (i - 1) |-> Len(b[h].moves)])

\* mutant of ApplyJitter: the sum is not clipped to MAX_BOOK_WEIGHT
ApplyJitter_NoClip(b, js) ==
    [i \in 1 .. Len(b) |->
        [b[i] EXCEPT !.moves =
            [j \in 1 .. Len(b[i].moves) |->
                [b[i].moves[j] EXCEPT !.weight = @ + js[Offset(b, i) + j]]]]]

\* bm.weight = min(MAX_BOOK_WEIGHT, bm.weight + random.randint(0, n)) for every
\* BookMove; js[x] is the number drawn for the x-th BookMove visited
ApplyJitter(b, js) ==
    [i \in 1 .. Len(b) |->
        [b[i] EXCEPT !.moves =
            [j \in 1 .. Len(b[i].moves) |->
                [b[i].moves[j] EXCEPT
                    !.weight = Min(MAX_BOOK_WEIGHT, @ + js[Offset(b, i) + j])]]]]

----------------------------------------------------------------------------
(* Input games *)

NoGame == [none |-> TRUE]          \* read_game returned None
NoRaise == 0 - 1                   \* board.push raises at no ply
Missing == <<"missing">>           \* the header is absent

DIGITS == <<"0", "1", "2", "3", "4", "5", "6", "7", "8", "9">>
IsDigit(c) == \E i \in 1 .. 10 : DIGITS[i] = c
DigitValue(c) == (CHOOSE i \in 1 .. 10 : DIGITS[i] = c) - 1

\* int(text) of a header text: ValueError unless it is a run of digits
IntRaises(t) == t = <<>> \/ \E i \in 1 .. Len(t) : ~IsDigit(t[i])

RECURSIVE IntValue(_)
IntValue(t) ==
    IF t = <<>> THEN 0 ELSE IntValue(Prefix(t, Len(t) - 1)) * 10 + DigitValue(t[Len(t)])

\* str.lower() on the variant tags that occur
Lower(t) ==
    CASE t = "Horde" -> "horde"
      [] t = "Standard" -> "standard"
      [] OTHER -> t

e2e4 == Move(12, 28, 0, 0)
g1f3 == Move(6, 21, 0, 0)
e7e8q == Move(52, 60, 5, 0)
PawnDropE4 == Move(28, 28, 0, 1)

\* the principal lines that occur in the input
Lines == {<<>>, <<e2e4>>, <<g1f3>>, <<PawnDropE4>>, <<e2e4, e7e8q>>}

Results == {"1-0", "0-1", "1/2-1/2"}

\* header sets: Variant, White, Black, WhiteElo, BlackElo
RatedHeaders ==
    [Variant |-> "Horde", White |-> "NecroMindX", Black |-> "MaggiChess16",
     WhiteElo |-> <<"3", "2", "0", "0">>, BlackElo |-> <<"3", "1", "5", "0">>]

UnparseableEloHeaders == [RatedHeaders EXCEPT !.BlackElo = <<"?">>]

\* no WhiteElo header at all: headers.get("WhiteElo", 0) gives the default
MissingEloHeaders == [RatedHeaders EXCEPT !.WhiteElo = Missing]

OtherVariantHeaders ==
    [Variant |-> "Standard", White |-> "someone", Black |-> "ToromBot",
     WhiteElo |-> <<"3", "1", "0", "0">>, BlackElo |-> <<"3", "3", "0", "0">>]

\* a game of the stream: its headers, its principal line, and the ply at
\* which board.push raises (NoRaise: the whole line replays).  The games
\* with the rated headers come with every result, line and failing ply.
Games ==
    { [headers |-> RatedHeaders, Result |-> r, moves |-> l, raises |-> k] :
        r \in Results, l \in Lines, k \in {NoRaise, 0, 1} }
    \cup
    { [headers |-> h, Result |-> "0-1", moves |-> <<e2e4>>, raises |-> NoRaise] :
        h \in {UnparseableEloHeaders, MissingEloHeaders, OtherVariantHeaders} }

WellFormed(g) == g.raises < Len(g.moves)

----------------------------------------------------------------------------
(* Admission *)

\* book-builder-general.py: both ratings are parsed in one try block, a
\* ValueError in either sets both to 0; a missing header defaults to 0
GeneralElos(h) ==
    LET parse(t) == IF t = Missing THEN [raises |-> FALSE, val |-> 0]
                    ELSE [raises |-> IntRaises(t), val |-> IF IntRaises(t) THEN 0 ELSE IntValue(t)]
        w == parse(h.WhiteElo)
        b == parse(h.BlackElo)
    IN  IF w.raises \/ b.raises THEN [white |-> 0, black |-> 0]
        ELSE [white |-> w.val, black |-> b.val]

\* standard-bin.py: each rating has its own try block
StandardElos(h) ==
    LET parse(t) == IF t = Missing \/ IntRaises(t) THEN 0 ELSE IntValue(t)
    IN  [white |-> parse(h.WhiteElo), black |-> parse(h.BlackElo)]

GeneralAdmits(g) ==
    LET elo == GeneralElos(g.headers)
    IN  /\ Lower(g.headers.Variant) = Lower(VARIANT("general"))
        /\ ~(elo.white < MIN_RATING /\ elo.black < MIN_RATING)
        /\ ~(g.headers.White \notin ALLOWED_BOTS("general")
             /\ g.headers.Black \notin ALLOWED_BOTS("general"))

StandardAdmits(g) ==
    LET elo == StandardElos(g.headers)
    IN  /\ g.Result \in {"0-1", "1/2-1/2"}
        /\ g.headers.Black \in ALLOWED_BOTS("standard")
        /\ ~(elo.black < RATING_CUTOFF \/ elo.white < RATING_CUTOFF)

Admits(s, g) == IF s = "general" THEN GeneralAdmits(g) ELSE StandardAdmits(g)

----------------------------------------------------------------------------
(* Replay of one admitted game *)

NoWinner == "none"
Winner(g) ==
    IF g.Result = "1-0" THEN "white" ELSE IF g.Result = "0-1" THEN "black" ELSE NoWinner

\* mutant of Decay: the factor is not held at 1 near MAX_PLY
Decay_NoFloor(s, ply) == (MAX_PLY(s) - ply) \div 5

Decay(s, ply) == Max(1, (MAX_PLY(s) - ply) \div 5)

\* the amount added to bm.weight at a ply: the win/loss/draw policy of
\* book-builder-general.py:146-153, the side policy of standard-bin.py:153-157
Increment(s, g, board, ply) ==
    IF s = "general"
    THEN IF Winner(g) # NoWinner
         THEN IF Turn(board) = (Winner(g) = "white")
              THEN 5 * Decay(s, ply) ELSE 2 * Decay(s, ply)
         ELSE 3 * Decay(s, ply)
    ELSE IF Turn(board) = BLACK THEN 6 * Decay(s, ply) ELSE 1

\* mutant of RecordMove: only the first game that plays a move gives it weight
RecordMove_FirstOnly(b, board, move, inc) ==
    LET k == key_hex(board)
        b1 == get_position(b, k)
        i == PositionIndex(b1, k)
        ms == get_move(b1[i].moves, uci(move))
        j == MoveIndex(ms, uci(move))
    IN  [b1 EXCEPT ![i].moves =
            [ms EXCEPT ![j] = [@ EXCEPT !.move = move,
                                        !.weight = IF @ = 0 THEN inc ELSE @]]]

\* mutant of RecordMove: the increment replaces the weight (= instead of +=)
RecordMove_Overwrite(b, board, move, inc) ==
    LET k == key_hex(board)
        b1 == get_position(b, k)
        i == PositionIndex(b1, k)
        ms == get_move(b1[i].moves, uci(move))
        j == MoveIndex(ms, uci(move))
    IN  [b1 EXCEPT ![i].moves =
            [ms EXCEPT ![j] = [@ EXCEPT !.move = move, !.weight = inc]]]

\* the statements of the try block before board.push:
\*   k = key_hex(board); pos = book.get_position(k); bm = pos.get_move(move.uci())
\*   bm.move = move; bm.weight += increment
RecordMove(b, board, move, inc) ==
    LET k == key_hex(board)
        b1 == get_position(b, k)
        i == PositionIndex(b1, k)
        ms == get_move(b1[i].moves, uci(move))
        j == MoveIndex(ms, uci(move))
    IN  [b1 EXCEPT ![i].moves =
            [ms EXCEPT ![j] = [@ EXCEPT !.move = move, !.weight = @ + inc]]]

\* the loop `for ply, move in enumerate(game.mainline_moves())` from `ply` on
RECURSIVE Replay(_, _, _, _, _)
Replay(s, b, board, g, ply) ==
    IF ply >= Len(g.moves) \/ ply >= MAX_PLY(s) THEN b
    ELSE LET move == g.moves[ply + 1]
             b1 == RecordMove(b, board, move, Increment(s, g, board, ply))
         IN  IF g.raises = ply
             THEN b1                      \* board.push raised: except -> break
             ELSE Replay(s, b1, Append(board, move), g, ply + 1)

\* mutant of Ingest: a game whose replay fails leaves nothing in the book
Ingest_AllOrNothing(s, b, g) ==
    IF g.raises # NoRaise THEN b ELSE Replay(s, b, InitialBoard, g, 0)

\* the whole replay of one admitted game
Ingest(s, b, g) == Replay(s, b, InitialBoard, g, 0)

----------------------------------------------------------------------------
(* Book.save_polyglot *)

\* mutant of Entry: the weight is written in front of the move
Entry_WeightBeforeMove(k, m, w) ==
    fromhex(k) \o to_bytes(Min(MAX_BOOK_WEIGHT, w), 2)
    \o to_bytes(MoveCode(m), 2) \o to_bytes(0, 4)

\* mutant of Entry: the learn field is two bytes wide
Entry_ShortLearn(k, m, w) ==
    fromhex(k) \o to_bytes(MoveCode(m), 2)
    \o to_bytes(Min(MAX_BOOK_WEIGHT, w), 2) \o to_bytes(0, 2)

\* zbytes + mbytes + wbytes + lbytes
Entry(k, m, w) ==
    fromhex(k) \o to_bytes(MoveCode(m), 2)
    \o to_bytes(Min(MAX_BOOK_WEIGHT, w), 2) \o to_bytes(0, 4)

\* is a BookMove turned into an entry?
Emitted(s, bm) == ~(bm.weight <= 0 \/ bm.move = NoMove) /\ ~SkipsMove(s, bm.move)

\* the list `entries` before it is sorted
RECURSIVE EntriesOf(_, _)
EntriesOf(s, ms) ==
    IF ms = <<>> THEN <<>>
    ELSE (IF Emitted(s, Head(ms))
          THEN <<Entry(Head(ms).key, Head(ms).move, Head(ms).weight)>>
          ELSE <<>>)
         \o EntriesOf(s, Tail(ms))

\* mutant of SortKey: the entries are sorted by their move bytes alone
SortKey_MoveOnly(s, e) == SubSeq(e, 9, 10)

\* the sort key: book-builder-general.py sorts with
\* key=lambda e: (e[:8], e[10:12]), standard-bin.py sorts the entries themselves
SortKey(s, e) ==
    IF s = "general" THEN SubSeq(e, 1, 8) \o SubSeq(e, 11, 12) ELSE e

\* list.sort is stable: an entry goes behind every entry already placed whose
\* key is not greater
RECURSIVE SortEntries(_, _)
SortEntries(s, es) ==
    IF es = <<>> THEN <<>>
    ELSE LET n == Len(es)
             sorted == SortEntries(s, Prefix(es, n - 1))
             e == es[n]
             at == Cardinality({i \in 1 .. Len(sorted) :
                                   LexLeq(SortKey(s, sorted[i]), SortKey(s, e))})
         IN  Prefix(sorted, at) \o <<e>> \o SubSeq(sorted, at + 1, Len(sorted))

\* the sorted list `entries` that save_polyglot writes
SortedEntries(s, b) == SortEntries(s, EntriesOf(s, AllMoves(b)))

----------------------------------------------------------------------------
(* The run *)

\* what the output path holds before the run: a book of one record
PreviousFile == to_bytes(1, 8) \o to_bytes(MoveCode(e2e4), 2) \o to_bytes(1, 2) \o to_bytes(0, 4)

NoProbe == [none |-> TRUE]

Init ==
    /\ script \in Scripts
    /\ pc = "ingest"
    /\ book = <<>>
    /\ game = NoGame
    /\ processed = 0
    /\ kept = 0
    /\ raw = <<>>
    /\ normalized = <<>>
    /\ file = PreviousFile
    /\ raised = FALSE
    /\ admitted = <<>>
    /\ probe = NoProbe
    /\ current_board = InitialBoard

\* mutant of ReadGameStep: a game is still read and ingested after normalize
ReadGameStep_Late(g) ==
    /\ pc \in {"ingest", "jitter"}
    /\ WellFormed(g)
    /\ Admits(script, g) => kept < MaxGames
    /\ game' = g
    /\ IF Admits(script, g)
       THEN /\ kept' = kept + 1
            /\ book' = Ingest(script, book, g)
            /\ processed' = processed + 1
            /\ raised' = (raised \/ g.raises # NoRaise)
       ELSE UNCHANGED <<kept, book, processed, raised>>
    /\ UNCHANGED <<script, pc, raw, normalized, file, probe, current_board>>

\* one turn of the `while True` loop in which read_game returns a game
ReadGameStep(g) ==
    /\ pc = "ingest"
    /\ WellFormed(g)
    /\ Admits(script, g) => kept < MaxGames
    /\ game' = g
    /\ IF Admits(script, g)
       THEN /\ kept' = kept + 1
            /\ book' = Ingest(script, book, g)
            /\ processed' = processed + 1
            /\ raised' = (raised \/ g.raises # NoRaise)
       ELSE UNCHANGED <<kept, book, processed, raised>>
    /\ UNCHANGED <<script, pc, raw, normalized, file, probe, current_board>>

ReadGame == \E g \in Games : ReadGameStep(g) /\ UNCHANGED admitted

\* the games of the streams read by the runs that record the admitted games
RecordedGames ==
    {g \in Games : g.moves \in {<<e2e4>>, <<g1f3>>, <<e2e4, e7e8q>>} /\ g.raises \in {NoRaise, 1}}

\* the same step in a run that records the admitted games
ReadGameRecorded ==
    \E g \in RecordedGames :
        /\ ReadGameStep(g)
        /\ admitted' = IF Admits(script, g) THEN Append(admitted, g) ELSE admitted

\* read_game returns None: the loop ends and book.normalize() runs
Normalize ==
    /\ pc = "ingest"
    /\ game' = NoGame
    /\ raw' = book
    /\ book' = normalize(book)
    /\ normalized' = book'
    /\ pc' = "jitter"
    /\ UNCHANGED <<script, processed, kept, file, raised, admitted, probe, current_board>>

\* the jitter loop, drawing random.randint(0, JitterMax) per BookMove
JitterWith(range) ==
    /\ pc = "jitter"
    /\ \E js \in [1 .. NumMoves(book) -> range] : book' = ApplyJitter(book, js)
    /\ pc' = "save"
    /\ UNCHANGED <<script, game, processed, kept, raw, normalized, file,
                   raised, admitted, probe, current_board>>

Jitter == JitterWith(0 .. JitterMax(script))

\* save_polyglot: open(path, "wb") truncates the file, then the entries are
\* written one by one; the write of entry number n + 1 may fail with an I/O
\* error, which leaves the first n entries at the path and ends the run
SavePolyglot ==
    /\ pc = "save"
    /\ LET entries == SortedEntries(script, book)
       IN  \E n \in 0 .. Len(entries) :
              /\ file' = Concat(Prefix(entries, n))
              /\ pc' = IF n = Len(entries) THEN "done" ELSE "failed"
    /\ UNCHANGED <<script, book, game, processed, kept, raw, normalized,
                   raised, admitted, probe, current_board>>

\* open(path, "wb") itself fails: nothing is written
OpenFails ==
    /\ pc = "save"
    /\ pc' = "failed"
    /\ UNCHANGED <<script, book, game, processed, kept, raw, normalized,
                   file, raised, admitted, probe, current_board>>

Next == ReadGame \/ Normalize \/ Jitter \/ SavePolyglot \/ OpenFails

Spec == Init /\ [][Next]_vars

\* a run with the jitter switched off (every draw is 0) that records the
\* admitted games
JitterOff == JitterWith({0})

NextDet == ReadGameRecorded \/ Normalize \/ JitterOff \/ SavePolyglot \/ OpenFails

SpecDet == Init /\ [][NextDet]_vars

\* the move codec on its own: every move is handed to the encoding
\* statements of save_polyglot
ProbeMoves ==
    {Move(f, t, p, 0) : f \in Squares, t \in Squares, p \in {0} \cup PromotionPieces}
    \cup {Move(t, t, 0, d) : t \in Squares, d \in 1 .. 6}

InitCodec ==
    /\ script = "general"
    /\ pc = "codec"
    /\ book = <<>>
    /\ game = NoGame
    /\ processed = 0
    /\ kept = 0
    /\ raw = <<>>
    /\ normalized = <<>>
    /\ file = <<>>
    /\ raised = FALSE
    /\ admitted = <<>>
    /\ probe \in ProbeMoves
    /\ current_board = InitialBoard

\* mbytes = mi.to_bytes(2, "big") for a move that is not skipped
EncodeProbe ==
    /\ pc = "codec"
    /\ ~SkipsMove(script, probe)
    /\ file' = to_bytes(MoveCode(probe), 2)
    /\ pc' = "encoded"
    /\ UNCHANGED <<script, book, game, processed, kept, raw, normalized,
                   raised, admitted, probe, current_board>>

\* `if "@" in m.uci(): continue`
SkipProbe ==
    /\ pc = "codec"
    /\ SkipsMove(script, probe)
    /\ pc' = "skipped"
    /\ UNCHANGED <<script, book, game, processed, kept, raw, normalized,
                   file, raised, admitted, probe, current_board>>

NextCodec == EncodeProbe \/ SkipProbe

SpecCodec == InitCodec /\ [][NextCodec]_vars

----------------------------------------------------------------------------
(* The replay loop on its own: one admitted game, of any length up to past  *)
(* MAX_PLY, is replayed into a book.                                        *)

\* a game of 52 plies in which no position repeats: the sixteen pawns step
\* forward twice (a2a3 a7a6 b2b3 b7b6 ... h3h4 h6h5), then the pieces move
LongLine ==
    <<Move(8, 16, 0, 0), Move(48, 40, 0, 0), Move(9, 17, 0, 0), Move(49, 41, 0, 0),
      Move(10, 18, 0, 0), Move(50, 42, 0, 0), Move(11, 19, 0, 0), Move(51, 43, 0, 0),
      Move(12, 20, 0, 0), Move(52, 44, 0, 0), Move(13, 21, 0, 0), Move(53, 45, 0, 0),
      Move(14, 22, 0, 0), Move(54, 46, 0, 0), Move(15, 23, 0, 0), Move(55, 47, 0, 0),
      Move(16, 24, 0, 0), Move(40, 32, 0, 0), Move(17, 25, 0, 0), Move(41, 33, 0, 0),
      Move(18, 26, 0, 0), Move(42, 34, 0, 0), Move(19, 27, 0, 0), Move(43, 35, 0, 0),
      Move(20, 28, 0, 0), Move(44, 36, 0, 0), Move(21, 29, 0, 0), Move(45, 37, 0, 0),
      Move(22, 30, 0, 0), Move(46, 38, 0, 0), Move(23, 31, 0, 0), Move(47, 39, 0, 0),
      Move(1, 18, 0, 0), Move(57, 42, 0, 0), Move(6, 21, 0, 0), Move(62, 45, 0, 0),
      Move(2, 9, 0, 0), Move(58, 49, 0, 0), Move(5, 14, 0, 0), Move(61, 54, 0, 0),
      Move(0, 8, 0, 0), Move(56, 48, 0, 0), Move(7, 15, 0, 0), Move(63, 55, 0, 0),
      Move(3, 2, 0, 0), Move(59, 58, 0, 0), Move(4, 3, 0, 0), Move(60, 59, 0, 0),
      Move(18, 1, 0, 0), Move(42, 57, 0, 0), Move(21, 6, 0, 0), Move(45, 62, 0, 0)>>

\* the results a Result header carries; "*" is an unfinished game
ReplayResults == Results \cup {"*"}

\* the admitted games of the replay runs: every prefix of the long line with
\* every result, replayable to the end or with a push that raises at ply 1
ReplayGames ==
    { [headers |-> RatedHeaders, Result |-> r, moves |-> Prefix(LongLine, n), raises |-> k] :
        r \in ReplayResults, n \in 0 .. Len(LongLine), k \in {NoRaise, 1} }

\* the game that is in the second book (it was kept and processed)
PriorGame ==
    [headers |-> RatedHeaders, Result |-> "1-0", moves |-> Prefix(LongLine, 3), raises |-> NoRaise]

\* the run stands behind `board = chess.variant.HordeBoard()` for a game that
\* passed the filter: kept counts it, processed does not yet
InitReplay ==
    /\ script = "general"
    /\ pc = "replay"
    /\ game \in ReplayGames
    /\ WellFormed(game)
    /\ \/ book = <<>> /\ kept = 1 /\ processed = 0
       \/ book = Ingest("general", <<>>, PriorGame) /\ kept = 2 /\ processed = 1
    /\ raw = <<>>
    /\ normalized = <<>>
    /\ file = <<>>
    /\ raised = FALSE
    /\ admitted = <<>>
    /\ probe = NoProbe
    /\ current_board = InitialBoard

\* one turn of `for ply, move in enumerate(game.mainline_moves())`; ply is
\* the number of moves pushed so far
ReplayPly ==
    /\ pc = "replay"
    /\ Len(current_board) < Len(game.moves)
    /\ Len(current_board) < MAX_PLY(script)
    /\ LET ply == Len(current_board)
           move == game.moves[ply + 1]
       IN  /\ book' = RecordMove(book, current_board, move,
                                 Increment(script, game, current_board, ply))
           /\ IF game.raises = ply
              THEN /\ pc' = "replayed"            \* except -> break
                   /\ processed' = processed + 1
                   /\ raised' = TRUE
                   /\ UNCHANGED current_board
              ELSE /\ current_board' = Append(current_board, move)
                   /\ UNCHANGED <<pc, processed, raised>>
    /\ UNCHANGED <<script, game, kept, raw, normalized, file, admitted, probe>>

\* the moves are exhausted or `if ply >= MAX_PLY: break`; then processed += 1
ReplayEnd ==
    /\ pc = "replay"
    /\ Len(current_board) >= Len(game.moves) \/ Len(current_board) >= MAX_PLY(script)
    /\ pc' = "replayed"
    /\ processed' = processed + 1
    /\ UNCHANGED <<script, book, game, kept, raw, normalized, file, raised,
                   admitted, probe, current_board>>

NextReplay == ReplayPly \/ ReplayEnd

SpecReplay == InitReplay /\ [][NextReplay]_vars

----------------------------------------------------------------------------
(* normalize on its own: standard-bin.py has read a stream of one-move      *)
(* games won by Black; each adds 1 to the weight of its move from the       *)
(* initial position, so after w1 + w2 + w3 games the position holds any     *)
(* weights w1, w2, w3 >= 1.  normalize then runs on that book.              *)

d2d4 == Move(11, 27, 0, 0)

\* the first moves played, in the order in which they first occurred
NormMoves == <<e2e4, g1f3, d2d4>>

\* the book with the given weights under the initial position
NormBook(ws) ==
    IF ws = <<>> THEN <<>>
    ELSE <<[key |-> key_hex(InitialBoard),
            moves |-> [j \in 1 .. Len(ws) |->
                          [uci |-> uci(NormMoves[j]), weight |-> ws[j], move |-> NormMoves[j]]]]>>

RawWeights == UNION {[1 .. n -> 1 .. MaxRawWeight] : n \in 0 .. Len(NormMoves)}

InitNorm ==
    /\ script = "standard"
    /\ pc = "ingest"
    /\ \E ws \in RawWeights :
          /\ book = NormBook(ws)
          /\ kept = SumSeq(ws)
          /\ processed = SumSeq(ws)
    /\ game = NoGame
    /\ raw = <<>>
    /\ normalized = <<>>
    /\ file = PreviousFile
    /\ raised = FALSE
    /\ admitted = <<>>
    /\ probe = NoProbe
    /\ current_board = InitialBoard

NextNorm == Normalize

SpecNorm == InitNorm /\ [][NextNorm]_vars

----------------------------------------------------------------------------
(* Reading the output file back *)

\* int.from_bytes(b, "big")
RECURSIVE from_bytes(_)
from_bytes(b) ==
    IF b = <<>> THEN 0 ELSE from_bytes(Prefix(b, Len(b) - 1)) * 256 + b[Len(b)]

NumRecords(f) == Len(f) \div 16
Record(f, i) == SubSeq(f, 16 * (i - 1) + 1, 16 * i)
RecKey(r) == SubSeq(r, 1, 8)
RecMove(r) == SubSeq(r, 9, 10)
RecWeight(r) == SubSeq(r, 11, 12)
RecLearn(r) == SubSeq(r, 13, 16)

\* the 8 bytes of a 64-bit hash, big-endian, taken from the limbs directly
KeyBytesBigEndian(h) ==
    to_bytes(h[1], 2) \o to_bytes(h[2], 2) \o to_bytes(h[3], 2) \o to_bytes(h[4], 2)

\* the boards a replay of the input lines can stand on
Boards == UNION {{Prefix(l, n) : n \in 0 .. Len(l)} : l \in Lines}

BoardOfKey(k) == CHOOSE bd \in Boards : key_hex(bd) = k

IsDrop(m) == m # NoMove /\ m.drop # 0

\* sum of the weights of the position with key k
TotalWeight(b, k) ==
    SumSeq([x \in 1 .. Len(AllMoves(b)) |->
               IF AllMoves(b)[x].key = k THEN AllMoves(b)[x].weight ELSE 0])

----------------------------------------------------------------------------
(* C1 - the output is sorted by (PositionKey bytes, encoded-move bytes):    *)
(* in a written book, every record's (key, move code) is <= that of the    *)
(* record after it.                                                         *)
C1_SortedByKeyThenMove ==
    pc = "done" =>
        \A i \in 1 .. (NumRecords(file) - 1) :
            LexLeq(RecKey(Record(file, i)) \o RecMove(Record(file, i)),
                   RecKey(Record(file, i + 1)) \o RecMove(Record(file, i + 1)))

(* C2 - record layout: the file is a whole number of 16-byte records, one  *)
(* per emitted BookMove, and each record is the position's 64-bit key      *)
(* big-endian, the move code big-endian, min(MAX_BOOK_WEIGHT, weight)      *)
(* big-endian and four zero bytes.                                         *)
C2_Layout(r, bm) ==
    /\ Len(r) = 16
    /\ RecKey(r) = KeyBytesBigEndian(zobrist_hash(BoardOfKey(bm.key)))
    /\ from_bytes(RecMove(r)) =
          bm.move.to_square + bm.move.from_square * 64
          + (CASE bm.move.promotion = 0 -> 0
               [] bm.move.promotion = 2 -> 1
               [] bm.move.promotion = 3 -> 2
               [] bm.move.promotion = 4 -> 3
               [] bm.move.promotion = 5 -> 4) * 4096
    /\ from_bytes(RecWeight(r)) = Min(MAX_BOOK_WEIGHT, bm.weight)
    /\ RecLearn(r) = <<0, 0, 0, 0>>

C2_RecordLayout ==
    pc = "done" =>
        LET ms == AllMoves(book)
            out == {x \in 1 .. Len(ms) : Emitted(script, ms[x])}
        IN  /\ Len(file) = 16 * NumRecords(file)
            /\ \A i \in 1 .. NumRecords(file) :
                  \E x \in out : C2_Layout(Record(file, i), ms[x])
            /\ \A x \in out :
                  \E i \in 1 .. NumRecords(file) : C2_Layout(Record(file, i), ms[x])

C2_Witness ==
    /\ pc = "done"
    /\ NumRecords(file) >= 2
    /\ \E i \in 1 .. NumRecords(file) : from_bytes(RecMove(Record(file, i))) >= 4096

(* C3 - length: a written book is exactly 16 bytes per emitted BookMove,   *)
(* and a run that read no game leaves a zero-length file.                  *)
C3_Length ==
    pc = "done" =>
        LET ms == AllMoves(book)
        IN  /\ Len(file) = 16 * Cardinality({x \in 1 .. Len(ms) :
                                 /\ ms[x].weight > 0
                                 /\ ~IsDrop(ms[x].move)})
            /\ Len(file) % 16 = 0
            /\ (kept = 0 => Len(file) = 0)

C3_Witness == pc = "done" /\ Len(file) = 32 /\ kept = 2

C5_InBudget(b) ==
    \A x \in 1 .. Len(AllMoves(b)) :
        TotalWeight(raw, AllMoves(b)[x].key) > 0 =>
            /\ AllMoves(b)[x].weight >= 1
            /\ AllMoves(b)[x].weight <= MAX_BOOK_WEIGHT

----------------------------------------------------------------------------
(* What one game should add to the weight stored under (key, uci) when its  *)
(* plies 0 .. upto-1 count: the sum of the increments of those plies that   *)
(* stand on the position with that key and play that move.                  *)

Keys == {key_hex(bd) : bd \in Boards}
LineUcis == UNION {{uci(l[n]) : n \in 1 .. Len(l)} : l \in Lines}

Contribution(s, g, k, u, upto) ==
    SumSeq([q \in 1 .. upto |->
               IF key_hex(Prefix(g.moves, q - 1)) = k /\ uci(g.moves[q]) = u
               THEN Increment(s, g, Prefix(g.moves, q - 1), q - 1)
               ELSE 0])

\* the step that reads and admits a game
AdmitStep == pc = "ingest" /\ kept' = kept + 1

\* ... whose replay fails at some ply
FailingStep == AdmitStep /\ game'.raises # NoRaise

\* the last game read was admitted and its replay failed
ReplayFailed == pc = "ingest" /\ game # NoGame /\ Admits(script, game) /\ game.raises # NoRaise

(* C6 - replay robustness: a game whose push fails at ply k adds exactly    *)
(* the increments of plies 0..k-1 and nothing for ply k.                    *)
C6_NoCreditFromFailedPly ==
    [][FailingStep =>
          \A k \in Keys, u \in LineUcis :
              WeightOf(book', k, u) =
                  WeightOf(book, k, u) + Contribution(script, game', k, u, game'.raises)]_vars

(* C7 - a replay failure ends only that game: nothing recorded so far is    *)
(* lost, the game counts as kept and processed, the loop stays at the point *)
(* where it reads the next game, a game read after a failure is ingested    *)
(* in full, and the only way out of the loop is into normalize, the jitter  *)
(* loop and save_polyglot.                                                  *)
C7_FailureEndsOnlyThatGame ==
    [][/\ FailingStep =>
            /\ pc' = "ingest"
            /\ kept' = kept + 1
            /\ processed' = processed + 1
            /\ \A k \in Keys, u \in LineUcis :
                  WeightOf(book', k, u) >=
                      WeightOf(book, k, u) + Contribution(script, game', k, u, game'.raises)
       /\ (ReplayFailed /\ AdmitStep) =>
            /\ pc' = "ingest"
            /\ \A k \in Keys, u \in LineUcis :
                  WeightOf(book', k, u) >=
                      WeightOf(book, k, u)
                      + Contribution(script, game', k, u,
                                     IF game'.raises = NoRaise THEN Len(game'.moves)
                                     ELSE game'.raises)
       /\ (pc = "ingest" /\ pc' # "ingest") => (pc' = "jitter" /\ book' = normalize(book))
       /\ (pc = "jitter" /\ pc' # "jitter") => pc' = "save"]_vars

C7_Witness ==
    /\ pc = "ingest"
    /\ raised
    /\ kept = 2
    /\ game # NoGame /\ Admits(script, game) /\ game.raises = NoRaise
    /\ WeightOf(book, key_hex(<<>>), uci(e2e4)) > 0
    /\ WeightOf(book, key_hex(<<>>), uci(g1f3)) > 0

(* C8 - move codec: a non-drop move encodes to                              *)
(* destination + (origin << 6) + (promotion code << 12), promotion code 0   *)
(* for none and 1..4 for knight..queen, bit 15 is zero, and the three bit   *)
(* fields of the code give back origin, destination and promotion.          *)

\* the three bit fields of a move code (the codec's inverse)
DecodeTo(mi) == mi % 64
DecodeFrom(mi) == (mi \div 64) % 64
DecodePromotionCode(mi) == (mi \div 4096) % 8
DecodeBit15(mi) == (mi \div 32768) % 2

\* promotion codes: 0 none, 1 knight, 2 bishop, 3 rook, 4 queen
PromotionCode(p) ==
    CASE p = 0 -> 0 [] p = 2 -> 1 [] p = 3 -> 2 [] p = 4 -> 3 [] p = 5 -> 4

C8_CodecRoundTrip ==
    pc = "encoded" =>
        LET mi == from_bytes(file)
        IN  /\ Len(file) = 2
            /\ mi = probe.to_square + probe.from_square * 64
                    + PromotionCode(probe.promotion) * 4096
            /\ DecodeBit15(mi) = 0
            /\ DecodeTo(mi) = probe.to_square
            /\ DecodeFrom(mi) = probe.from_square
            /\ DecodePromotionCode(mi) = PromotionCode(probe.promotion)

C8_Witness ==
    /\ pc = "encoded"
    /\ probe = Move(52, 60, 5, 0)
    /\ file = <<77, 60>>

(* C9 - determinism: with the jitter off, the bytes written depend only on  *)
(* the set of admitted games, not on the order in which a run ingests them. *)

RECURSIVE IngestAll(_, _, _)
IngestAll(s, b, gs) ==
    IF gs = <<>> THEN b ELSE IngestAll(s, Ingest(s, b, Head(gs)), Tail(gs))

\* the bytes a complete run with the jitter off writes for a game sequence
RunOutput(s, gs) ==
    LET b == normalize(IngestAll(s, <<>>, gs))
        jittered == ApplyJitter(b, [x \in 1 .. NumMoves(b) |-> 0])
    IN  Concat(SortedEntries(s, jittered))

Orders(n) == {f \in [1 .. n -> 1 .. n] : \A i, j \in 1 .. n : f[i] = f[j] => i = j}

C9_Deterministic ==
    pc = "done" =>
        \A f \in Orders(Len(admitted)) :
            RunOutput(script, [i \in 1 .. Len(admitted) |-> admitted[f[i]]]) = file

(* C10 - no partial file: when writing fails, the output path holds the     *)
(* complete new book, what it held before, or nothing.                      *)
C10_NoPartialFile ==
    pc = "failed" =>
        file \in {PreviousFile, <<>>, Concat(SortedEntries(script, book))}

(* C11 - weights accumulate additively across games: before normalization  *)
(* the weight stored under every (position key, move) is the sum, over the  *)
(* admitted games and over the plies the replay of each game went through,  *)
(* of the increments of the plies that stood on that position and played    *)
(* that move; positions reached by different games share one key.           *)

\* the book as it was before normalization
RawBook == IF pc = "ingest" THEN book ELSE raw

\* the number of plies of a game for which the loop body ran
PliesReached(s, g) ==
    Min(MAX_PLY(s), IF g.raises = NoRaise THEN Len(g.moves) ELSE g.raises + 1)

\* the plies the replay of a game went through: for each the key of the
\* position it stood on, the move played there and the ply's increment
PliesOf(s, g) ==
    [q \in 1 .. PliesReached(s, g) |->
        [key |-> key_hex(Prefix(g.moves, q - 1)),
         uci |-> uci(g.moves[q]),
         inc |-> Increment(s, g, Prefix(g.moves, q - 1), q - 1)]]

\* for every (key, uci) some ply went through, the sum of those plies' increments
SumOfPlies(pl) ==
    [pr \in {<<pl[x].key, pl[x].uci>> : x \in 1 .. Len(pl)} |->
        SumSeq([x \in 1 .. Len(pl) |->
                   IF <<pl[x].key, pl[x].uci>> = pr THEN pl[x].inc ELSE 0])]

C11_AdditiveWeights ==
    LET b == RawBook
    IN  [pr \in {<<AllMoves(b)[x].key, AllMoves(b)[x].uci>> : x \in 1 .. Len(AllMoves(b))} |->
            WeightOf(b, pr[1], pr[2])]
        = SumOfPlies(Concat([i \in 1 .. Len(admitted) |-> PliesOf(script, admitted[i])]))

\* a decisive game won by the side to move and a drawn game play e2e4 from
\* the initial position: 5 * decay + 3 * decay = 8 * decay
C11_Witness ==
    /\ pc = "ingest"
    /\ script = "general"
    /\ Len(admitted) = 2
    /\ admitted[1].Result = "1-0" /\ admitted[2].Result = "1/2-1/2"
    /\ admitted[1].moves = <<e2e4>> /\ admitted[2].moves = <<e2e4, e7e8q>>
    /\ WeightOf(book, key_hex(InitialBoard), uci(e2e4)) = 8 * Decay("general", 0)

(* C12 - rating criterion: every rating that is missing or unparseable      *)
(* counts as 0 and the threshold test is applied to the resulting pair.     *)
(* Where one rating at the threshold is enough (book-builder-general) a     *)
(* game with one such rating and the other rating >= MIN_RATING passes the  *)
(* criterion, so it is admitted when the variant and bot criteria pass;     *)
(* where both ratings must reach the threshold (standard-bin) a game with   *)
(* an unparseable or missing rating is rejected.                            *)

\* a rating that is missing or unparseable counts as 0
RatingOrZero(t) == IF t = Missing \/ IntRaises(t) THEN 0 ELSE IntValue(t)

NoRating(t) == t = Missing \/ IntRaises(t)

\* the criteria of book-builder-general.py other than the rating criterion
GeneralOtherCriteria(g) ==
    /\ Lower(g.headers.Variant) = Lower(VARIANT("general"))
    /\ g.headers.White \in ALLOWED_BOTS("general") \/ g.headers.Black \in ALLOWED_BOTS("general")

C12_RatingCriterion ==
    [][(pc = "ingest" /\ pc' = "ingest" /\ game' # NoGame) =>
          LET h == game'.headers
          IN  /\ (/\ script = "general"
                  /\ GeneralOtherCriteria(game')
                  /\ RatingOrZero(h.WhiteElo) >= MIN_RATING \/ RatingOrZero(h.BlackElo) >= MIN_RATING)
                 => kept' = kept + 1
              /\ (/\ script = "standard"
                  /\ NoRating(h.WhiteElo) \/ NoRating(h.BlackElo))
                 => kept' = kept]_vars

(* C13 - one fully replayable admitted game of n moves, symmetric policy:   *)
(* for each ply p < min(n, MAX_PLY) the weight under (key of the position   *)
(* before move p, move p) grows by 5 * decay when the game is decisive and  *)
(* the side to move wins it, 2 * decay when it loses it, 3 * decay when the *)
(* game is drawn or unfinished, decay = max(1, (MAX_PLY - p) // 5); plies   *)
(* from MAX_PLY on add nothing, no other weight changes and no other        *)
(* BookMove appears.                                                        *)

\* the increment the policy gives ply p of a game with the given result
C13_Increment(result, p) ==
    LET decay == Max(1, (MAX_PLY("general") - p) \div 5)
        whiteToMove == p % 2 = 0
    IN  IF result \in {"1-0", "0-1"}
        THEN IF whiteToMove = (result = "1-0") THEN 5 * decay ELSE 2 * decay
        ELSE 3 * decay

\* is there a BookMove under (key, uci)?
HasMove(b, k, u) ==
    \E i \in 1 .. Len(b) : b[i].key = k /\ \E j \in 1 .. Len(b[i].moves) : b[i].moves[j].uci = u

\* the book the replay started from
StartBook == IF kept = 1 THEN <<>> ELSE Ingest("general", <<>>, PriorGame)

C13_OneIncrementPerPly ==
    (pc = "replayed" /\ game.raises = NoRaise) =>
        LET m == Min(Len(game.moves), MAX_PLY("general"))
            plies == 0 .. (m - 1)
            key(p) == key_hex(Prefix(game.moves, p))
            move(p) == uci(game.moves[p + 1])
        IN  /\ Cardinality({key(p) : p \in plies}) = m
            /\ \A p \in plies :
                  WeightOf(book, key(p), move(p)) =
                      WeightOf(StartBook, key(p), move(p)) + C13_Increment(game.Result, p)
            /\ \A p \in plies : HasMove(book, key(p), move(p))
            /\ NumMoves(book) =
                  NumMoves(StartBook)
                  + Cardinality({p \in plies : ~HasMove(StartBook, key(p), move(p))})
            /\ \A x \in 1 .. Len(AllMoves(StartBook)) :
                  LET bm == AllMoves(StartBook)[x]
                  IN  /\ HasMove(book, bm.key, bm.uci)
                      /\ (\A p \in plies : key(p) # bm.key \/ move(p) # bm.uci)
                            => WeightOf(book, bm.key, bm.uci) = bm.weight

\* a game of 52 plies won by White went into a book that held its first
\* plies: ply 0 added 5 * 10 to the 50 that were there, ply 49 (Black to
\* move, decay 1) added 2, plies 50 and 51 left no BookMove
C13_Witness ==
    /\ pc = "replayed"
    /\ game.raises = NoRaise
    /\ kept = 2
    /\ Len(game.moves) = 52
    /\ game.Result = "1-0"
    /\ WeightOf(book, key_hex(InitialBoard), uci(LongLine[1])) = 100
    /\ WeightOf(book, key_hex(Prefix(LongLine, 49)), uci(LongLine[50])) = 2
    /\ Len(book) = 50

(* C14 - normalize: in every position with total weight S > 0 each weight w *)
(* becomes max(1, round(w / S * MAX_BOOK_WEIGHT)), the scaled value rounded *)
(* to the nearest integer, whatever the raw weights are.                    *)

\* r is an integer nearest to x / s
IsNearest(r, x, s) == 2 * (r * s - x) <= s /\ 2 * (x - r * s) <= s

C14_RoundedToNearest ==
    pc = "jitter" =>
        \A i \in 1 .. Len(raw) :
            LET S == SumSeq([j \in 1 .. Len(raw[i].moves) |-> raw[i].moves[j].weight])
            IN  S > 0 =>
                  \A j \in 1 .. Len(raw[i].moves) :
                      LET x == raw[i].moves[j].weight * MAX_BOOK_WEIGHT
                      IN  \E r \in {x \div S, x \div S + 1} :
                             /\ IsNearest(r, x, S)
                             /\ normalized[i].moves[j].weight = Max(1, r)

(* C15 - proportions within rounding: in every position with raw total      *)
(* S > 0 the normalized weight of a move of raw weight w is less than 1     *)
(* away from w * MAX_BOOK_WEIGHT / S, unless it was raised to the floor 1;  *)
(* raw weights 10, 5, 5 normalize to 1260, 630, 630.                        *)
C15_WithinOne ==
    pc = "jitter" =>
        /\ \A i \in 1 .. Len(raw) :
              LET S == SumSeq([j \in 1 .. Len(raw[i].moves) |-> raw[i].moves[j].weight])
              IN  S > 0 =>
                    \A j \in 1 .. Len(raw[i].moves) :
                        LET x == raw[i].moves[j].weight * MAX_BOOK_WEIGHT
                            v == normalized[i].moves[j].weight
                        IN  \/ v = 1 /\ x < S
                            \/ (v * S - x < S /\ x - v * S < S)
        /\ raw = NormBook(<<10, 5, 5>>) => normalized = NormBook(<<1260, 630, 630>>)

(* C16 - jitter: once the jitter loop has run, every BookMove has           *)
(* weight = min(MAX_BOOK_WEIGHT, normalized weight + j) for some j in 0..3: *)
(* no weight went down, none grew by more than 3, none exceeds              *)
(* MAX_BOOK_WEIGHT, and every weight written fits the 2-byte field.         *)
C16_JitterBounded ==
    /\ pc \in {"save", "done", "failed"} =>
          /\ Len(AllMoves(book)) = Len(AllMoves(normalized))
          /\ \A x \in 1 .. Len(AllMoves(book)) :
                LET before == AllMoves(normalized)[x].weight
                    after == AllMoves(book)[x].weight
                IN  /\ \E j \in 0 .. 3 : after = Min(MAX_BOOK_WEIGHT, before + j)
                    /\ after >= before
                    /\ after <= before + 3
                    /\ after <= MAX_BOOK_WEIGHT
                    /\ after < 65536
    /\ pc = "done" =>
          \A i \in 1 .. NumRecords(file) :
              from_bytes(RecWeight(Record(file, i))) <= MAX_BOOK_WEIGHT

\* one weight grew by 3, one that was at MAX_BOOK_WEIGHT stayed there
C16_Witness ==
    /\ pc = "save"
    /\ \E x \in 1 .. Len(AllMoves(book)) :
          AllMoves(book)[x].weight = AllMoves(normalized)[x].weight + 3
    /\ \E x \in 1 .. Len(AllMoves(book)) :
          /\ AllMoves(normalized)[x].weight = MAX_BOOK_WEIGHT
          /\ AllMoves(book)[x].weight = MAX_BOOK_WEIGHT

(* C17 - three strictly ordered phases: the run moves from ingestion to     *)
(* normalize and jitter to save_polyglot and never back; games are read     *)
(* and weights incremented only while ingesting, before normalize starts;   *)
(* normalize runs once, on leaving the ingestion loop, then the jitter      *)
(* loop runs once; the book does not change while it is serialized.         *)

PhaseOrder ==
    {<<"ingest", "jitter">>, <<"jitter", "save">>, <<"save", "done">>, <<"save", "failed">>}

\* the weights of b2 are those of b1, each grown by something in 0..3 at most
Jittered(b1, b2) ==
    /\ Len(AllMoves(b1)) = Len(AllMoves(b2))
    /\ \A x \in 1 .. Len(AllMoves(b1)) :
          /\ AllMoves(b2)[x].key = AllMoves(b1)[x].key
          /\ AllMoves(b2)[x].uci = AllMoves(b1)[x].uci
          /\ AllMoves(b2)[x].weight \in AllMoves(b1)[x].weight .. (AllMoves(b1)[x].weight + 3)

C17_OrderedPhases ==
    [][/\ pc' # pc => <<pc, pc'>> \in PhaseOrder
       /\ (kept' # kept \/ processed' # processed \/ game' \notin {game, NoGame})
             => (pc = "ingest" /\ pc' = "ingest" /\ raw = <<>> /\ normalized = <<>>)
       /\ (pc = "ingest" /\ pc' = "ingest") => UNCHANGED <<raw, normalized, file>>
       /\ (pc = "ingest" /\ pc' # "ingest") =>
             /\ raw' = book
             /\ book' = [i \in 1 .. Len(book) |-> NormalizePosition(book[i])]
             /\ normalized' = book'
             /\ file' = file
       /\ pc # "ingest" => UNCHANGED <<raw, normalized, kept, processed>>
       /\ pc = "jitter" => (pc' = "save" /\ Jittered(book, book') /\ file' = file)
       /\ pc = "save" => book' = book
       /\ pc \in {"done", "failed"} => UNCHANGED <<book, file>>]_vars

\* a finished run: two games ingested, the book normalized, jittered, written
C17_Witness ==
    /\ pc = "done"
    /\ kept = 2
    /\ processed = 2
    /\ raw # <<>>
    /\ normalized # raw
    /\ book # normalized
    /\ Jittered(normalized, book)
    /\ file = Concat(SortedEntries(script, book))
    /\ file # PreviousFile

(* C18 - games are independent during ingestion: whatever the order in      *)
(* which the admitted games are ingested, every (position, move) gets the   *)
(* same raw weight, and that weight is the sum of the weights the pair has  *)
(* in the partial books built from the parts of any partition of the games. *)

\* the games of gs at the indices in keep, in their order
RECURSIVE SubGames(_, _)
SubGames(gs, keep) ==
    IF gs = <<>> THEN <<>>
    ELSE SubGames(Prefix(gs, Len(gs) - 1), keep)
         \o (IF Len(gs) \in keep THEN <<gs[Len(gs)]>> ELSE <<>>)

\* the (key, uci) pairs of the BookMoves of a book
PairsOf(b) == {<<AllMoves(b)[x].key, AllMoves(b)[x].uci>> : x \in 1 .. Len(AllMoves(b))}

\* the weights of a book by (key, uci), whatever the order of its entries
Weights(b) == [pr \in PairsOf(b) |-> WeightOf(b, pr[1], pr[2])]

\* per-position, per-move summation of the weights of a sequence of books
SumOfBooks(bs) ==
    [pr \in UNION {PairsOf(bs[w]) : w \in 1 .. Len(bs)} |->
        SumSeq([w \in 1 .. Len(bs) |-> WeightOf(bs[w], pr[1], pr[2])])]

\* the last game read was admitted, so the book has just been added to
JustIngested == pc = "ingest" /\ admitted # <<>> /\ game = admitted[Len(admitted)]

C18_OrderAndPartition ==
    JustIngested =>
        LET n == Len(admitted)
        IN  /\ \A f \in Orders(n) :
                  Weights(IngestAll(script, <<>>, [i \in 1 .. n |-> admitted[f[i]]]))
                      = Weights(book)
            /\ \A part \in [1 .. n -> 1 .. n] :
                  SumOfBooks([w \in 1 .. n |->
                                 IngestAll(script, <<>>,
                                           SubGames(admitted, {i \in 1 .. n : part[i] = w}))])
                      = Weights(book)

\* two different games that share their first move, one of them going on
C18_Witness ==
    /\ pc = "ingest"
    /\ Len(admitted) = 2
    /\ admitted[1].moves = <<e2e4, e7e8q>> /\ admitted[1].Result = "0-1"
    /\ admitted[2].moves = <<e2e4>> /\ admitted[2].Result = "1/2-1/2"
    /\ WeightOf(book, key_hex(InitialBoard), uci(e2e4)) >
          WeightOf(Ingest(script, <<>>, admitted[1]), key_hex(InitialBoard), uci(e2e4))
    /\ WeightOf(book, key_hex(<<e2e4>>), uci(e7e8q)) > 0

(* C19 - uniqueness: at every point of a run the Book holds at most one     *)
(* position per key and every position at most one BookMove per move, and   *)
(* what is written never holds two records with the same (key, move code).  *)
C19_UniqueEntries ==
    /\ \A i, j \in 1 .. Len(book) : book[i].key = book[j].key => i = j
    /\ \A i \in 1 .. Len(book) :
          \A x, y \in 1 .. Len(book[i].moves) :
              (\/ book[i].moves[x].uci = book[i].moves[y].uci
               \/ book[i].moves[x].move = book[i].moves[y].move) => x = y
    /\ pc \in {"done", "failed"} =>
          \A r, t \in 1 .. NumRecords(file) :
              (/\ RecKey(Record(file, r)) = RecKey(Record(file, t))
               /\ RecMove(Record(file, r)) = RecMove(Record(file, t))) => r = t

\* two games played the same move from the same position: one BookMove with
\* the weight of both, one record
C19_Witness ==
    /\ pc = "done"
    /\ kept = 2
    /\ Len(raw) = 1
    /\ Len(raw[1].moves) = 1
    /\ raw[1].moves[1].weight = 2 * 5 * Decay("general", 0)
    /\ NumRecords(file) = 1

(* C20 - in what a builder script writes the key field never decreases     *)
(* from one record to the next, so the records of one key are contiguous,   *)
(* whatever their order inside the key.                                     *)
C20_KeysNonDecreasing ==
    pc \in {"done", "failed"} =>
        /\ \A i \in 1 .. (NumRecords(file) - 1) :
              LexLeq(RecKey(Record(file, i)), RecKey(Record(file, i + 1)))
        /\ \A r, t, v \in 1 .. NumRecords(file) :
              (r < t /\ t < v /\ RecKey(Record(file, r)) = RecKey(Record(file, v)))
                 => RecKey(Record(file, t)) = RecKey(Record(file, r))

\* three records: the position that entered the book first has the greater
\* key and its two records come last, side by side
C20_Witness ==
    /\ pc = "done"
    /\ NumRecords(file) = 3
    /\ RecKey(Record(file, 1)) # RecKey(Record(file, 2))
    /\ RecKey(Record(file, 2)) = RecKey(Record(file, 3))
    /\ fromhex(book[1].key) = RecKey(Record(file, 3))

(* C21 - normalize preserves the order inside a position: of two moves of   *)
(* one position, the one with the greater or equal raw weight has the       *)
(* greater or equal normalized weight, and equal raw weights give equal     *)
(* normalized weights.                                                      *)
C21_OrderPreserving ==
    pc = "jitter" =>
        /\ Len(normalized) = Len(raw)
        /\ \A i \in 1 .. Len(raw) :
              /\ Len(normalized[i].moves) = Len(raw[i].moves)
              /\ \A a, b \in 1 .. Len(raw[i].moves) :
                    /\ raw[i].moves[a].weight >= raw[i].moves[b].weight
                          => normalized[i].moves[a].weight >= normalized[i].moves[b].weight
                    /\ raw[i].moves[a].weight = raw[i].moves[b].weight
                          => normalized[i].moves[a].weight = normalized[i].moves[b].weight

\* raw weights 2, 11, 2: the scaled values are 336, 1847 (the double product
\* falls just below 1848) and 336
C21_Witness ==
    /\ pc = "jitter"
    /\ raw = NormBook(<<2, 11, 2>>)
    /\ normalized = NormBook(<<336, 1847, 336>>)

====
